---------------------------- MODULE Spec2Model ----------------------------
(***************************************************************************)
(* A model of rpncalc: the Reverse Polish Notation calculator in its two   *)
(* iterations, rpncalc.c (a hand-rolled segmented stack, one command per   *)
(* input line) and rpncalc.cc (a std::list<double>, several tokens per     *)
(* line).                                                                  *)
(*                                                                         *)
(* Representation choices:                                                 *)
(*  - a double is an exact rational <<num, den>>, den > 0, in lowest       *)
(*    terms; rounding, infinities and NaN are outside the bounded inputs.  *)
(*  - a C string / std::string is a sequence of one-character strings.     *)
(*  - the heap of stack nodes is a function from addresses 1..MaxNodes to  *)
(*    node records; address 0 is NULL; a freed node has alloc = FALSE.     *)
(*  - undefined behaviour (null or dangling dereference, out-of-bounds     *)
(*    slot, pop_back on an empty list) sets fault = "ub"; the program is   *)
(*    not followed further and the value it was producing is a             *)
(*    nondeterministic choice from Garbage.                                *)
(***************************************************************************)
EXTENDS Integers, Sequences, FiniteSets, TLC

VARIABLES
    prog,      \* which program runs: "c", "cc", or a part of one: "api" (the stack
               \* functions and the switch of main of rpncalc.c), "list" (the switch of
               \* exec_line of rpncalc.cc)
    status,    \* "run", "exit" (returned from main / exit()), "ub", "abort" (uncaught exception)
    nodes,     \* rpncalc.c: the heap of struct stack_node
    first,     \* rpncalc.c: s->first
    last,      \* rpncalc.c: s->last
    count,     \* rpncalc.c: s->count
    cmd,       \* the struct rpn_cmd last dispatched (rpncalc.c: main's cmd, kept across
               \* loop iterations)
    list,      \* rpncalc.cc: the std::list<double>
    pc,        \* main's position: "read" (waiting in fgets / std::getline), "exec"
    buf,       \* the line buffer of main
    retval,    \* main's retval: what parse_buf / exec_line returned for the last line
    ndone,     \* rpncalc.cc: how many tokens of the last line exec_line carried out
    out,       \* what main printed for the last line
    call,      \* "api": the last call made and its result
    script,    \* "api": the values a push-then-pop script pushes
    popped,    \* "api": the values the successful pops of the script returned
    balance    \* "api": pushes minus successful pops

vars == <<prog, status, nodes, first, last, count, cmd, list, pc, buf, retval, ndone,
          out, call, script, popped, balance>>

-----------------------------------------------------------------------------
(* Bounds of the model *)

MaxNodes == 4        \* addresses the allocator can hand out
MaxCount == 21       \* pushes are offered while s->count is below this
MaxScript == 21      \* longest push-then-pop script
MaxToks == 3         \* tokens (separated by single spaces) in an input line
MaxDepth == 3        \* lines are offered while they leave at most this many values
MaxNum == 2          \* ... whose numerators are at most this in magnitude
MaxDen == 1          \* ... and whose denominators are at most this
MaxOpDepth == 5      \* commands are offered while they leave at most this many values
MaxTimes == 3        \* largest repeat count of an operator command

(* Program constants *)

STACK_NODE_ELEMENTS_NUM == 10

NULL == 0

-----------------------------------------------------------------------------
(* doubles as exact rationals *)

Abs(n) == IF n < 0 THEN -n ELSE n

RECURSIVE Gcd(_, _)
Gcd(a, b) == IF b = 0 THEN a ELSE Gcd(b, a % b)

Norm(n, d) ==
    LET g == Gcd(Abs(n), Abs(d))
        s == IF d < 0 THEN -1 ELSE 1
    IN  <<(s * n) \div g, (s * d) \div g>>

D(n) == <<n, 1>>

DAdd(x, y) == Norm(x[1] * y[2] + y[1] * x[2], x[2] * y[2])
DSub(x, y) == Norm(x[1] * y[2] - y[1] * x[2], x[2] * y[2])
DMul(x, y) == Norm(x[1] * y[1], x[2] * y[2])
DDiv(x, y) == Norm(x[1] * y[2], x[2] * y[1])
DIsZero(x) == x[1] = 0

(* the content of memory that was never written *)
Uninit == <<"uninit">>
(* values an indeterminate double is read as *)
Garbage == {D(0), D(-1)}

-----------------------------------------------------------------------------
(* rpncalc.c: the segmented stack *)

Addr == 1..MaxNodes
Slots == 0..(STACK_NODE_ELEMENTS_NUM - 1)

BlankVal == [i \in Slots |-> Uninit]

FreeNode == [alloc |-> FALSE, ptr |-> 0, val |-> BlankVal, prev |-> NULL, next |-> NULL]

Live(s, p) == p /= NULL /\ s.nodes[p].alloc

(* F applied to the value of e, which is computed once *)
Bind(e, F(_)) == CHOOSE r \in {F(x) : x \in {e}} : TRUE

(* The slots of node p at or above its fill index hold dead values: every  *)
(* read of a slot (stack_pop, stack_print) is of one below the fill index, *)
(* and a slot comes below it only by the push that writes it.  The model   *)
(* does not keep dead values.                                              *)
Dead(s, p) ==
    [s EXCEPT !.nodes[p].val =
        [i \in Slots |-> IF i >= s.nodes[p].ptr THEN Uninit ELSE @[i]]]

(* malloc: an address not in use, NULL when there is none *)
stack_alloc_node(s) ==
    IF \E a \in Addr : ~s.nodes[a].alloc
    THEN CHOOSE a \in Addr : ~s.nodes[a].alloc /\ \A b \in Addr : b < a => s.nodes[b].alloc
    ELSE NULL

stack_init ==
    [nodes |-> [a \in Addr |-> IF a = 1
                               THEN [alloc |-> TRUE, ptr |-> 0, val |-> BlankVal,
                                     prev |-> NULL, next |-> NULL]
                               ELSE FreeNode],
     first |-> 1, last |-> 1, count |-> 0, fault |-> "none"]

(* stack_push without its ++(s->count) *)
stack_push_nocount(s, k) ==
    LET full == s.nodes[s.last].ptr = STACK_NODE_ELEMENTS_NUM
        n    == stack_alloc_node(s)
    IN  IF full /\ n = NULL
        THEN [s EXCEPT !.fault = "exit"]
        ELSE LET s1 == IF full
                       THEN [s EXCEPT !.nodes[n] = [alloc |-> TRUE, ptr |-> 0,
                                                    val |-> BlankVal,
                                                    prev |-> s.last, next |-> NULL],
                                      !.nodes[s.last].next = n,
                                      !.last = n]
                       ELSE s
                 l  == s1.last
                 i  == s1.nodes[l].ptr
             IN  IF i \notin Slots
                 THEN [s1 EXCEPT !.fault = "ub"]
                 ELSE [s1 EXCEPT !.nodes[l].val[i] = k,
                                 !.nodes[l].ptr = i + 1]

stack_push(s, k) ==
    LET full == s.nodes[s.last].ptr = STACK_NODE_ELEMENTS_NUM
        n    == stack_alloc_node(s)
    IN  IF full /\ n = NULL
        THEN [s EXCEPT !.fault = "exit"]
        ELSE LET s1 == IF full
                       THEN [s EXCEPT !.nodes[n] = [alloc |-> TRUE, ptr |-> 0,
                                                    val |-> BlankVal,
                                                    prev |-> s.last, next |-> NULL],
                                      !.nodes[s.last].next = n,
                                      !.last = n]
                       ELSE s
                 l  == s1.last
                 i  == s1.nodes[l].ptr
             IN  IF i \notin Slots
                 THEN [s1 EXCEPT !.fault = "ub"]
                 ELSE [s1 EXCEPT !.nodes[l].val[i] = k,
                                 !.nodes[l].ptr = i + 1,
                                 !.count = @ + 1]

(* stack_pop releasing the last node in the call that empties it *)
stack_pop_eager(s, want) ==
    IF s.count = 0
    THEN [s |-> s, ret |-> 0, val |-> Uninit]
    ELSE LET l   == s.last
             i   == s.nodes[l].ptr - 1
             prv == s.nodes[l].prev
             v   == IF i \in Slots THEN s.nodes[l].val[i] ELSE Uninit
             s1  == Dead([s EXCEPT !.count = @ - 1, !.nodes[l].ptr = i], l)
             s2  == IF i = 0 /\ prv /= NULL
                    THEN [s1 EXCEPT !.nodes[prv].next = NULL,
                                    !.last = prv,
                                    !.nodes[l] = FreeNode]
                    ELSE s1
         IN  IF i \notin Slots \/ (want /\ v = Uninit)
             THEN [s |-> [s1 EXCEPT !.fault = "ub"], ret |-> 1, val |-> Uninit]
             ELSE [s |-> s2, ret |-> 1, val |-> IF want THEN v ELSE Uninit]

(* stack_pop releasing the last node when it holds one value (ptr == 1)   *)
(* instead of none                                                         *)
stack_pop_early(s, want) ==
    IF s.count = 0
    THEN [s |-> s, ret |-> 0, val |-> Uninit]
    ELSE LET del   == s.last
             empty == s.nodes[del].ptr = 1 /\ s.nodes[del].prev /= NULL
             prv   == s.nodes[del].prev
         IN  LET s1 == IF empty
                       THEN [s EXCEPT !.nodes[prv].next = NULL,
                                      !.last = prv,
                                      !.nodes[del] = FreeNode]
                       ELSE s
                 l  == s1.last
                 i  == s1.nodes[l].ptr - 1
                 s2 == [s1 EXCEPT !.count = @ - 1, !.nodes[l].ptr = i]
             IN  IF ~want
                 THEN [s |-> Dead(s2, l), ret |-> 1, val |-> Uninit]
                 ELSE IF i \notin Slots \/ s2.nodes[l].val[i] = Uninit
                      THEN [s |-> [s2 EXCEPT !.fault = "ub"], ret |-> 1, val |-> Uninit]
                      ELSE [s |-> Dead(s2, l), ret |-> 1, val |-> s2.nodes[l].val[i]]

(* ret = NULL is want = FALSE.  The result holds the stack, the return      *)
(* value and, when one was stored through ret, the value.                   *)
stack_pop(s, want) ==
    IF s.count = 0
    THEN [s |-> s, ret |-> 0, val |-> Uninit]
    ELSE LET del   == s.last
             empty == s.nodes[del].ptr = 0
             prv   == s.nodes[del].prev
         IN  IF empty /\ ~Live(s, prv)
             THEN [s |-> [s EXCEPT !.fault = "ub"], ret |-> 0, val |-> Uninit]
             ELSE LET s1 == IF empty
                            THEN [s EXCEPT !.nodes[prv].next = NULL,
                                           !.last = prv,
                                           !.nodes[del] = FreeNode]
                            ELSE s
                      l  == s1.last
                      i  == s1.nodes[l].ptr - 1
                      s2 == [s1 EXCEPT !.count = @ - 1, !.nodes[l].ptr = i]
                  IN  IF ~want
                      THEN [s |-> Dead(s2, l), ret |-> 1, val |-> Uninit]
                      ELSE IF i \notin Slots \/ s2.nodes[l].val[i] = Uninit
                           THEN [s |-> [s2 EXCEPT !.fault = "ub"], ret |-> 1, val |-> Uninit]
                           ELSE [s |-> Dead(s2, l), ret |-> 1, val |-> s2.nodes[l].val[i]]

(* the loop of stack_clear: free(ptr_1) while ptr_2 is not NULL *)
RECURSIVE ClearLoop(_, _, _)
ClearLoop(s, ptr_1, ptr_2) ==
    IF ptr_2 = NULL THEN s
    ELSE IF ~Live(s, ptr_2) THEN [s EXCEPT !.fault = "ub"]
    ELSE ClearLoop([s EXCEPT !.nodes[ptr_1] = FreeNode], ptr_2, s.nodes[ptr_2].next)

stack_clear(s) ==
    LET ptr_1 == s.nodes[s.first].next
        s1    == IF ptr_1 /= NULL
                 THEN IF ~Live(s, ptr_1) THEN [s EXCEPT !.fault = "ub"]
                      ELSE ClearLoop(s, ptr_1, s.nodes[ptr_1].next)
                 ELSE s
    IN  IF s1.fault /= "none" THEN s1
        ELSE Dead([s1 EXCEPT !.nodes[s.first].ptr = 0, !.nodes[s.first].next = NULL],
                  s.first)

(* what stack_print prints: the values of the segments from s->first along next *)
RECURSIVE PrintFrom(_, _)
PrintFrom(s, p) ==
    IF p = NULL THEN <<>>
    ELSE [i \in 1..(IF s.nodes[p].ptr > 0 THEN s.nodes[p].ptr ELSE 0) |->
              s.nodes[p].val[i - 1]]
         \o PrintFrom(s, s.nodes[p].next)

stack_print(s) == PrintFrom(s, s.first)

(* the stack of the current state *)
Stk == [nodes |-> nodes, first |-> first, last |-> last, count |-> count, fault |-> "none"]

(* the segments reachable from the first one *)
RECURSIVE ChainFrom(_, _)
ChainFrom(s, p) == IF p = NULL THEN <<>> ELSE <<p>> \o ChainFrom(s, s.nodes[p].next)

Chain(s) == ChainFrom(s, s.first)

RECURSIVE SumPtr(_, _)
SumPtr(s, c) == IF c = <<>> THEN 0 ELSE s.nodes[Head(c)].ptr + SumPtr(s, Tail(c))

Allocated(s) == {a \in Addr : s.nodes[a].alloc}


-----------------------------------------------------------------------------
(* The stack functions called directly, as a test of the stack would call  *)
(* them: prog = "api".                                                    *)

PushValues(c) ==
    IF c % STACK_NODE_ELEMENTS_NUM \in {0, STACK_NODE_ELEMENTS_NUM - 1}
    THEN {D(1), D(2)}
    ELSE {D(1)}

NoCmd == [t |-> "DOUBLE", data |-> <<"val", D(0)>>, op_times |-> 0]

NoCall == [op |-> "init", arg |-> Uninit, ret |-> 1, val |-> Uninit]

SetStack(s) ==
    /\ nodes' = s.nodes
    /\ first' = s.first
    /\ last' = s.last
    /\ count' = s.count
    /\ status' = IF s.fault = "none" THEN status ELSE s.fault

InitApi ==
    /\ prog = "api"
    /\ status = "run"
    /\ nodes = stack_init.nodes
    /\ first = stack_init.first
    /\ last = stack_init.last
    /\ count = stack_init.count
    /\ cmd = NoCmd
    /\ list = <<>>
    /\ pc = "read"
    /\ buf = <<>>
    /\ retval = 0
    /\ ndone = 0
    /\ out = [msgs |-> <<>>, listing |-> <<>>]
    /\ call = NoCall
    /\ popped = <<>>
    /\ balance = 0

ApiFrame == UNCHANGED <<prog, cmd, list, pc, buf, retval, ndone, out, script>>

(* stack_push(s, v) *)
ApiPush(v) ==
    /\ prog = "api" /\ status = "run"
    /\ LET s == stack_push(Stk, v)
       IN  /\ SetStack(s)
           /\ call' = [op |-> "push", arg |-> v, ret |-> 1, val |-> Uninit]
           /\ balance' = IF s.fault = "none" THEN balance + 1 ELSE balance
    /\ UNCHANGED popped
    /\ ApiFrame

(* stack_pop(s, &v): a pop that hits undefined behaviour stores an         *)
(* indeterminate value                                                     *)
ApiPop(track) ==
    /\ prog = "api" /\ status = "run"
    /\ LET r == stack_pop(Stk, TRUE)
       IN  /\ SetStack(r.s)
           /\ \E g \in (IF r.s.fault = "ub" THEN Garbage ELSE {r.val}) :
                 /\ call' = [op |-> "pop", arg |-> Uninit, ret |-> r.ret, val |-> g]
                 /\ popped' = IF track /\ r.ret = 1 THEN Append(popped, g) ELSE popped
           /\ balance' = IF r.ret = 1 THEN balance - 1 ELSE balance
    /\ ApiFrame

(* stack_pop(s, NULL) *)
ApiDrop ==
    /\ prog = "api" /\ status = "run"
    /\ LET r == stack_pop(Stk, FALSE)
       IN  /\ SetStack(r.s)
           /\ call' = [op |-> "drop", arg |-> Uninit, ret |-> r.ret, val |-> Uninit]
           /\ balance' = IF r.ret = 1 THEN balance - 1 ELSE balance
    /\ UNCHANGED popped
    /\ ApiFrame

(* stack_clear(s) *)
ApiClear ==
    /\ prog = "api" /\ status = "run"
    /\ SetStack(stack_clear(Stk))
    /\ call' = [op |-> "clear", arg |-> Uninit, ret |-> 1, val |-> Uninit]
    /\ UNCHANGED <<popped, balance>>
    /\ ApiFrame

(* -- push v1..vn, then pop n times -- *)

Scripts ==
    UNION {{[i \in 1..n |-> D(i)], [i \in 1..n |-> D(n - i)], [i \in 1..n |-> D(i % 2)]} :
           n \in 0..MaxScript}

InitLifo == InitApi /\ script \in Scripts

LifoPush ==
    /\ popped = <<>> /\ call.op /= "pop" /\ balance < Len(script)
    /\ ApiPush(script[balance + 1])

LifoPop ==
    /\ balance + Len(popped) = Len(script)
    /\ Len(popped) < Len(script)
    /\ ApiPop(TRUE)

NextLifo == LifoPush \/ LifoPop

SpecLifo == InitLifo /\ [][NextLifo]_vars

(* -- any interleaving of pushes and pops -- *)

InitStack == InitApi /\ script = <<>>

Push == \E v \in PushValues(count) : count < MaxCount /\ ApiPush(v)

Pop == ApiPop(FALSE)

NextPushPop == Push \/ Pop

SpecPushPop == InitStack /\ [][NextPushPop]_vars

(* -- any interleaving of pushes, pops, drops and clears -- *)

Drop == ApiDrop

Clear == ApiClear

NextStack == Push \/ Pop \/ Drop \/ Clear

SpecStack == InitStack /\ [][NextStack]_vars

(* pushes and both forms of pop: stack_pop(s, &v) and stack_pop(s, NULL) *)
NextPops == Push \/ Pop \/ Drop

SpecPops == InitStack /\ [][NextPops]_vars


-----------------------------------------------------------------------------
(* Strings: <ctype.h>, strtod / strtol, std::stod / std::stol *)

Digits == {"0", "1", "2", "3", "4", "5", "6", "7", "8", "9"}

isdigit(c) == c \in Digits

DigitVal(c) ==
    CASE c = "0" -> 0 [] c = "1" -> 1 [] c = "2" -> 2 [] c = "3" -> 3 [] c = "4" -> 4
      [] c = "5" -> 5 [] c = "6" -> 6 [] c = "7" -> 7 [] c = "8" -> 8 [] c = "9" -> 9

OpChars == {"+", "-", "*", "/"}

substr(b, pos, n) == SubSeq(b, pos, pos + n - 1)

(* the index after the run of digits of b that starts at index i *)
RECURSIVE DigitRun(_, _)
DigitRun(b, i) == IF i <= Len(b) /\ isdigit(b[i]) THEN DigitRun(b, i + 1) ELSE i

(* the number the digits b[i..j-1] spell *)
RECURSIVE NatVal(_, _, _)
NatVal(b, i, j) == IF j <= i THEN 0 ELSE 10 * NatVal(b, i, j - 1) + DigitVal(b[j - 1])

RECURSIVE Pow10(_)
Pow10(k) == IF k = 0 THEN 1 ELSE 10 * Pow10(k - 1)

(* The decimal floating-point prefix of b: optional sign, digits, optional *)
(* '.', digits, with at least one digit.  ok = FALSE: no conversion.       *)
ParseDouble(b) ==
    LET signed == Len(b) >= 1 /\ b[1] \in {"+", "-"}
        neg    == signed /\ b[1] = "-"
        i0     == IF signed THEN 2 ELSE 1
        i1     == DigitRun(b, i0)
        dot    == i1 <= Len(b) /\ b[i1] = "."
        f0     == i1 + 1
        f1     == IF dot THEN DigitRun(b, f0) ELSE f0
        nfrac  == f1 - f0
        mag    == Norm(NatVal(b, i0, i1) * Pow10(nfrac) + NatVal(b, f0, f1), Pow10(nfrac))
    IN  [ok  |-> (i1 > i0) \/ (nfrac > 0),
         val |-> IF neg THEN <<-mag[1], mag[2]>> ELSE mag]

(* strtod(buf, NULL): 0 when no conversion is performed *)
strtod(b) == IF ParseDouble(b).ok THEN ParseDouble(b).val ELSE D(0)

(* A long (64 bits) is kept as four 16-bit limbs, least significant first, *)
(* so that no intermediate value leaves the range of 32-bit integers.     *)
Limb == 65536

LongZero == [l |-> <<0, 0, 0, 0>>, over |-> FALSE]

(* 10 * a + d; over: the magnitude has passed LONG_MAX *)
LongStep(a, d) ==
    LET t0 == a.l[1] * 10 + d
        t1 == a.l[2] * 10 + (t0 \div Limb)
        t2 == a.l[3] * 10 + (t1 \div Limb)
        t3 == a.l[4] * 10 + (t2 \div Limb)
    IN  [l |-> <<t0 % Limb, t1 % Limb, t2 % Limb, t3 % Limb>>,
         over |-> a.over \/ t3 >= 32768]

(* the magnitude the digits b[i..j-1] spell, as a long *)
RECURSIVE LongVal(_, _, _)
LongVal(b, i, j) ==
    IF j <= i THEN LongZero
    ELSE Bind(LongVal(b, i, j - 1), LAMBDA a : LongStep(a, DigitVal(b[j - 1])))

(* the conversion of a long to int: its low 32 bits, two's complement *)
IntOfLong(neg, a) ==
    LET u == IF a.l[2] >= 32768 THEN (a.l[2] - Limb) * Limb + a.l[1]
             ELSE a.l[2] * Limb + a.l[1]
    IN  IF neg /\ u /= (-2147483647) - 1 THEN -u ELSE u

(* The decimal integer prefix of b: optional sign, digits. *)
ParseLong(b) ==
    LET signed == Len(b) >= 1 /\ b[1] \in {"+", "-"}
        neg    == signed /\ b[1] = "-"
        i0     == IF signed THEN 2 ELSE 1
        i1     == DigitRun(b, i0)
    IN  [ok |-> i1 > i0, neg |-> neg, mag |-> LongVal(b, i0, i1)]

(* (int) strtol(buf, NULL, 10), long of 64 bits: 0 when no conversion is   *)
(* performed, LONG_MAX or LONG_MIN when the value is out of range          *)
strtol(b) ==
    Bind(ParseLong(b), LAMBDA r :
        IF ~r.ok THEN 0
        ELSE IF r.mag.over THEN (IF r.neg THEN 0 ELSE -1)
        ELSE IntOfLong(r.neg, r.mag))

(* int times = std::stol(tok), long of 64 bits: [threw, val]; threw:       *)
(* std::invalid_argument when no conversion is performed,                  *)
(* std::out_of_range when the value is out of range                        *)
stol(b) ==
    Bind(ParseLong(b), LAMBDA r :
        IF ~r.ok \/ r.mag.over THEN [threw |-> TRUE, val |-> 0]
        ELSE [threw |-> FALSE, val |-> IntOfLong(r.neg, r.mag)])

-----------------------------------------------------------------------------
(* The token classifier: parse_buf (rpncalc.c), parse_token (rpncalc.cc) *)

(* the union rpn_cmd.data holds a double or an rpn_op *)
cmd_op(c, times, f_char_buf) ==
    [c EXCEPT !.t = "OP",
              !.op_times = times,
              !.data = CASE f_char_buf = "+" -> <<"op", "SUM">>
                         [] f_char_buf = "-" -> <<"op", "SUB">>
                         [] f_char_buf = "*" -> <<"op", "MUL">>
                         [] f_char_buf = "/" -> <<"op", "DIV">>
                         [] OTHER -> @]

cmd_double(c, b) == [c EXCEPT !.t = "DOUBLE", !.data = <<"val", strtod(b)>>]

RECURSIVE IsValidDoubleLoop(_, _, _)
IsValidDoubleLoop(b, i, p) ==
    IF i > Len(b) THEN 1
    ELSE IF b[i] = "." /\ p = 0 THEN IsValidDoubleLoop(b, i + 1, 1)
    ELSE IF ~isdigit(b[i]) THEN 0
    ELSE IsValidDoubleLoop(b, i + 1, p)

is_valid_double(b) == IsValidDoubleLoop(b, 1, 0)

RECURSIVE IsValidIntLoop(_, _, _)
IsValidIntLoop(b, i, n) ==
    IF i > n THEN 1
    ELSE IF ~isdigit(b[i]) THEN 0
    ELSE IsValidIntLoop(b, i + 1, n)

is_valid_int(b, n) == IsValidIntLoop(b, 1, n)

Str_quit == <<"q", "u", "i", "t">>
Str_drop == <<"d", "r", "o", "p">>
Str_clear == <<"c", "l", "e", "a", "r">>

(* rpncalc.c: rpn_commands, in the order the loop tries them *)
rpn_commands_c == <<[cmd |-> Str_quit, cmd_type |-> "EXIT"],
                    [cmd |-> Str_drop, cmd_type |-> "DROP"],
                    [cmd |-> Str_clear, cmd_type |-> "CLEAR"]>>

(* rpncalc.cc: rpn_commands *)
rpn_commands_cc == <<[cmd |-> Str_drop, cmd_type |-> "DROP"],
                     [cmd |-> Str_clear, cmd_type |-> "CLEAR"]>>

IsKeyword(tab, b) == \E i \in 1..Len(tab) : tab[i].cmd = b

KeywordType(tab, b) ==
    tab[CHOOSE i \in 1..Len(tab) : tab[i].cmd = b /\ \A j \in 1..(i - 1) : tab[j].cmd /= b].cmd_type

(* rpncalc.c parse_buf: [ret, cmd].  The last branch has no else: a buffer  *)
(* that is neither a number nor a count-then-operator form returns 0 and    *)
(* leaves *cmd as it was.                                                   *)
parse_buf(b, c) ==
    LET buf_len == Len(b) IN
    IF buf_len = 0 THEN [ret |-> -1, cmd |-> c]
    ELSE IF IsKeyword(rpn_commands_c, b)
    THEN [ret |-> 0, cmd |-> [c EXCEPT !.t = KeywordType(rpn_commands_c, b)]]
    ELSE IF b[1] = "+" \/ b[1] = "-"
    THEN IF buf_len > 1
         THEN IF is_valid_double(Tail(b)) = 1
              THEN [ret |-> 0, cmd |-> cmd_double(c, b)]
              ELSE [ret |-> -1, cmd |-> c]
         ELSE [ret |-> 0, cmd |-> cmd_op(c, 1, b[1])]
    ELSE IF b[1] = "*" \/ b[1] = "/"
    THEN IF buf_len > 1
         THEN [ret |-> -1, cmd |-> c]
         ELSE [ret |-> 0, cmd |-> cmd_op(c, 1, b[1])]
    ELSE LET last_char_index == buf_len - 1 IN
         IF is_valid_double(b) = 1
         THEN [ret |-> 0, cmd |-> cmd_double(c, b)]
         ELSE IF b[buf_len] \in OpChars /\ is_valid_int(b, last_char_index) = 1
         THEN [ret |-> 0, cmd |-> cmd_op(c, strtol(b), b[buf_len])]
         ELSE [ret |-> 0, cmd |-> c]

(* rpncalc.cc parse_token: [ret, cmd, threw].  threw: std::stod found no    *)
(* number and threw std::invalid_argument.                                  *)
parse_token(tok, c) ==
    LET tok_len == Len(tok)
        number  == [ret |-> 0, cmd |-> cmd_double(c, tok), threw |-> ~ParseDouble(tok).ok]
        bad     == [ret |-> -1, cmd |-> c, threw |-> FALSE]
    IN
    IF tok_len = 0 THEN bad
    ELSE IF IsKeyword(rpn_commands_cc, tok)
    THEN [ret |-> 0, cmd |-> [c EXCEPT !.t = KeywordType(rpn_commands_cc, tok)],
          threw |-> FALSE]
    ELSE IF tok[1] = "+" \/ tok[1] = "-"
    THEN IF tok_len > 1
         THEN IF is_valid_double(substr(tok, 2, tok_len - 1)) = 1 THEN number ELSE bad
         ELSE [ret |-> 0, cmd |-> cmd_op(c, 1, tok[1]), threw |-> FALSE]
    ELSE IF tok[1] = "*" \/ tok[1] = "/"
    THEN IF tok_len > 1
         THEN bad
         ELSE [ret |-> 0, cmd |-> cmd_op(c, 1, tok[1]), threw |-> FALSE]
    ELSE LET last_char_index == tok_len - 1 IN
         IF is_valid_double(substr(tok, 1, last_char_index + 1)) = 1
         THEN number
         ELSE IF tok[tok_len] \in OpChars /\ is_valid_int(tok, last_char_index) = 1
         THEN Bind(stol(tok), LAMBDA r :
                  [ret |-> 0, cmd |-> cmd_op(c, r.val, tok[tok_len]), threw |-> r.threw])
         ELSE bad

-----------------------------------------------------------------------------
(* The operator executor: exec_op *)

DivZeroMsg == "error - division by zero"

(* ApplyOp with the operands of the subtraction exchanged *)
ApplyOp_swapped(op, x, y) ==
    CASE op = "SUM" -> DAdd(x, y)
      [] op = "SUB" -> DSub(x, y)
      [] op = "MUL" -> DMul(x, y)
      [] op = "DIV" -> DDiv(y, x)
      [] OTHER -> y

(* the switch of exec_op; an op outside the enum matches no case and res   *)
(* still holds the value the second pop stored in it, y                    *)
ApplyOp(op, x, y) ==
    CASE op = "SUM" -> DAdd(x, y)
      [] op = "SUB" -> DSub(y, x)
      [] op = "MUL" -> DMul(x, y)
      [] op = "DIV" -> DDiv(y, x)
      [] OTHER -> y

(* ExecOpStepC giving the two operands back on a division by zero *)
ExecOpStepC_restore(s, op) ==
    IF s.count <= 1 THEN [s |-> s, msgs |-> <<>>, more |-> FALSE]
    ELSE Bind(stack_pop(s, TRUE), LAMBDA r1 :
         IF r1.s.fault /= "none" \/ r1.ret = 0
         THEN [s |-> r1.s, msgs |-> <<>>, more |-> FALSE]
         ELSE Bind(stack_pop(r1.s, TRUE), LAMBDA r2 :
              LET x == r1.val
                  y == r2.val
              IN  IF r2.s.fault /= "none" \/ r2.ret = 0
                  THEN [s |-> r2.s, msgs |-> <<>>, more |-> FALSE]
                  ELSE IF op = "DIV" /\ DIsZero(x)
                  THEN [s |-> s, msgs |-> <<DivZeroMsg>>, more |-> FALSE]
                  ELSE Bind(stack_push(r2.s, ApplyOp(op, x, y)), LAMBDA s3 :
                       [s |-> s3, msgs |-> <<>>, more |-> s3.fault = "none"])))

(* rpncalc.c: one iteration of the for loop of exec_op on the stack s:    *)
(* [s, msgs, more], more when the loop goes on to the next iteration       *)
ExecOpStepC(s, op) ==
    IF s.count <= 1 THEN [s |-> s, msgs |-> <<>>, more |-> FALSE]
    ELSE Bind(stack_pop(s, TRUE), LAMBDA r1 :
         IF r1.s.fault /= "none" \/ r1.ret = 0
         THEN [s |-> r1.s, msgs |-> <<>>, more |-> FALSE]
         ELSE Bind(stack_pop(r1.s, TRUE), LAMBDA r2 :
              LET x == r1.val
                  y == r2.val
              IN  IF r2.s.fault /= "none" \/ r2.ret = 0
                  THEN [s |-> r2.s, msgs |-> <<>>, more |-> FALSE]
                  ELSE IF op = "DIV" /\ DIsZero(x)
                  THEN [s |-> r2.s, msgs |-> <<DivZeroMsg>>, more |-> FALSE]
                  ELSE Bind(stack_push(r2.s, ApplyOp(op, x, y)), LAMBDA s3 :
                       [s |-> s3, msgs |-> <<>>, more |-> s3.fault = "none"])))

(* rpncalc.c: the for loop of exec_op, from iteration i *)
RECURSIVE ExecOpLoopC(_, _, _, _)
ExecOpLoopC(s, op, times, i) ==
    IF ~(i < times) THEN [s |-> s, msgs |-> <<>>]
    ELSE Bind(ExecOpStepC(s, op), LAMBDA it :
              IF it.more THEN ExecOpLoopC(it.s, op, times, i + 1)
              ELSE [s |-> it.s, msgs |-> it.msgs])

exec_op_c(s, op, times) ==
    ExecOpLoopC(s, op, IF times = 0 THEN s.count - 1 ELSE times, 0)

(* rpncalc.cc: the for loop of exec_op, from iteration i; s->back() is the *)
(* last element of the sequence                                            *)
RECURSIVE ExecOpLoopCC(_, _, _, _)
ExecOpLoopCC(l, op, times, i) ==
    IF ~(i < times) THEN [list |-> l, msgs |-> <<>>]
    ELSE IF Len(l) <= 1 THEN [list |-> l, msgs |-> <<>>]
    ELSE LET x    == l[Len(l)]
             y    == l[Len(l) - 1]
             rest == SubSeq(l, 1, Len(l) - 2)
         IN  IF op = "DIV" /\ DIsZero(x)
             THEN [list |-> rest, msgs |-> <<DivZeroMsg>>]
             ELSE Bind(Append(rest, ApplyOp(op, x, y)), LAMBDA l2 :
                       ExecOpLoopCC(l2, op, times, i + 1))

(* exec_op that prints nothing *)
exec_op_cc_silent(l, op, times) ==
    [list |-> ExecOpLoopCC(l, op, IF times = 0 THEN Len(l) - 1 ELSE times, 0).list,
     msgs |-> <<>>]

exec_op_cc(l, op, times) ==
    ExecOpLoopCC(l, op, IF times = 0 THEN Len(l) - 1 ELSE times, 0)

-----------------------------------------------------------------------------
(* rpncalc.cc: the line evaluator exec_line *)

(* std::string::npos; next starts as (size_t) -1, so that next + 1 is 0 *)
NPOS == -1

(* buf->find_first_of(" ", current), positions counted from 0 *)
find_first_of(b, current) ==
    IF \E i \in current..(Len(b) - 1) : b[i + 1] = " "
    THEN CHOOSE i \in current..(Len(b) - 1) :
             b[i + 1] = " " /\ \A j \in current..(i - 1) : b[j + 1] /= " "
    ELSE NPOS

DataVal(c) == IF c.data[1] = "val" THEN c.data[2] ELSE D(0)
DataOp(c) == IF c.data[1] = "op" THEN c.data[2] ELSE "OTHER"

(* the switch of exec_line on one parsed command *)
DispatchCC(l, c) ==
    CASE c.t = "DOUBLE" -> [list |-> Append(l, DataVal(c)), msgs |-> <<>>, fault |-> "none"]
      [] c.t = "OP" ->
            LET r == IF c.op_times = 0
                     THEN exec_op_cc(l, DataOp(c), Len(l) - 1)
                     ELSE exec_op_cc(l, DataOp(c), c.op_times)
            IN  [list |-> r.list, msgs |-> r.msgs, fault |-> "none"]
      [] c.t = "DROP" ->
            IF l = <<>>
            THEN [list |-> l, msgs |-> <<>>, fault |-> "ub"]
            ELSE [list |-> SubSeq(l, 1, Len(l) - 1), msgs |-> <<>>, fault |-> "none"]
      [] c.t = "CLEAR" -> [list |-> <<>>, msgs |-> <<>>, fault |-> "none"]
      [] OTHER -> [list |-> l, msgs |-> <<>>, fault |-> "none"]

(* one body of the do-while loop of exec_line, entered with the given     *)
(* next: [list, cmd, next, ret, msgs, fault, more], more when the body ran *)
(* to its end                                                              *)
ExecLineStep(l, b, c, next) ==
    Bind(find_first_of(b, next + 1), LAMBDA nxt :
    LET current == next + 1
        tmp     == IF nxt = NPOS THEN SubSeq(b, current + 1, Len(b))
                   ELSE substr(b, current + 1, nxt - current)
    IN  Bind(parse_token(tmp, c), LAMBDA r :
        IF r.ret = -1
        THEN [list |-> l, cmd |-> r.cmd, next |-> nxt, ret |-> -1, msgs |-> <<>>,
              fault |-> "none", more |-> FALSE]
        ELSE IF r.threw
        THEN [list |-> l, cmd |-> r.cmd, next |-> nxt, ret |-> 0, msgs |-> <<>>,
              fault |-> "abort", more |-> FALSE]
        ELSE Bind(DispatchCC(l, r.cmd), LAMBDA d :
             [list |-> d.list, cmd |-> r.cmd, next |-> nxt, ret |-> 1, msgs |-> d.msgs,
              fault |-> d.fault, more |-> d.fault = "none"])))

(* the do-while loop of exec_line, entered with the given next; done counts *)
(* the loop bodies that ran to their end                                    *)
RECURSIVE ExecLineLoop(_, _, _, _, _, _)
ExecLineLoop(l, b, c, next, msgs, done) ==
    Bind(ExecLineStep(l, b, c, next), LAMBDA it :
        IF it.more /\ it.next /= NPOS
        THEN ExecLineLoop(it.list, b, it.cmd, it.next, msgs \o it.msgs, done + 1)
        ELSE [list |-> it.list, ret |-> IF it.fault /= "none" THEN 0 ELSE it.ret,
              msgs |-> msgs \o it.msgs, fault |-> it.fault,
              done |-> IF it.more THEN done + 1 ELSE done])

(* memset(&cmd, 0, sizeof(rpn_cmd)) *)
ZeroCmd == [t |-> "DOUBLE", data |-> <<"val", D(0)>>, op_times |-> 0]

exec_line(l, b) == ExecLineLoop(l, b, ZeroCmd, NPOS, <<>>, 0)

-----------------------------------------------------------------------------
(* The input lines offered to the two programs *)

(* lines of one token *)
SingleTokens ==
    {<<"0">>, <<"1">>, <<"2">>, <<".">>, <<"+">>, <<"-">>, <<"*">>, <<"/">>,
     <<"0", "+">>, <<"2", "/">>, Str_drop, Str_clear, Str_quit, <<"x">>, <<>>}

(* the tokens of the longer lines *)
LineTokens == {<<"1">>, <<"0">>, <<"+">>, <<"/">>, <<"x">>, <<>>}

RECURSIVE JoinTokens(_)
JoinTokens(ts) ==
    IF Len(ts) = 1 THEN ts[1] ELSE ts[1] \o <<" ">> \o JoinTokens(Tail(ts))

Lines ==
    SingleTokens
    \cup UNION {{JoinTokens(ts) : ts \in [1..n -> LineTokens]} : n \in 2..MaxToks}

(* rpncalc.c classifies the whole line as one token: it is offered the     *)
(* lines of at most two tokens                                             *)
CLines == {l \in Lines : Cardinality({i \in 1..Len(l) : l[i] = " "}) <= 1}

InRangeVal(v) == Abs(v[1]) <= MaxNum /\ v[2] <= MaxDen

InRange(l) == Len(l) <= MaxDepth /\ \A i \in 1..Len(l) : InRangeVal(l[i])

-----------------------------------------------------------------------------
(* rpncalc.c: main *)

(* what the uninitialised struct rpn_cmd of main may hold *)
CmdGarbage ==
    {[t |-> "DOUBLE", data |-> <<"val", g>>, op_times |-> n] : g \in Garbage, n \in {0, 1}}
    \cup {[t |-> "OP", data |-> <<"op", o>>, op_times |-> n] :
              o \in {"SUM", "SUB", "MUL", "DIV", "OTHER"}, n \in {0, 1, 2}}
    \cup {[t |-> k, data |-> <<"val", D(0)>>, op_times |-> 0] :
              k \in {"DROP", "CLEAR", "EXIT", "OTHER"}}

(* the loop of stack_destroy: free(ptr_1) while ptr_2 is not NULL *)
stack_destroy(s) ==
    LET ptr_2 == s.nodes[s.first].next
    IN  IF ptr_2 = NULL THEN s
        ELSE IF ~Live(s, ptr_2) THEN [s EXCEPT !.fault = "ub"]
        ELSE ClearLoop(s, s.first, ptr_2)

(* the switch of main on cmd.t: [s, msgs, exit] *)
DispatchC(s, c) ==
    CASE c.t = "DOUBLE" -> [s |-> stack_push(s, DataVal(c)), msgs |-> <<>>, exit |-> FALSE]
      [] c.t = "OP" ->
            LET r == IF c.op_times = 0
                     THEN exec_op_c(s, DataOp(c), s.count - 1)
                     ELSE exec_op_c(s, DataOp(c), c.op_times)
            IN  [s |-> r.s, msgs |-> r.msgs, exit |-> FALSE]
      [] c.t = "DROP" -> [s |-> stack_pop(s, FALSE).s, msgs |-> <<>>, exit |-> FALSE]
      [] c.t = "CLEAR" -> [s |-> stack_clear(s), msgs |-> <<>>, exit |-> FALSE]
      [] c.t = "EXIT" -> [s |-> stack_destroy(s), msgs |-> <<>>, exit |-> TRUE]
      [] OTHER -> [s |-> s, msgs |-> <<>>, exit |-> FALSE]

ProgFrame == UNCHANGED <<prog, call, script, popped, balance>>

InitProg ==
    /\ status = "run"
    /\ nodes = stack_init.nodes
    /\ first = stack_init.first
    /\ last = stack_init.last
    /\ count = stack_init.count
    /\ list = <<>>
    /\ pc = "read"
    /\ buf = <<>>
    /\ retval = 0
    /\ ndone = 0
    /\ out = [msgs |-> <<>>, listing |-> <<>>]
    /\ call = NoCall
    /\ script = <<>>
    /\ popped = <<>>
    /\ balance = 0

InitC == InitProg /\ prog = "c" /\ cmd \in CmdGarbage

(* parse_buf and the switch of main on one line: [ret, cmd, s, msgs, exit] *)
MainBody(s, line, c) ==
    Bind(parse_buf(line, c), LAMBDA p :
    Bind(IF p.ret = -1 THEN [s |-> s, msgs |-> <<>>, exit |-> FALSE]
         ELSE DispatchC(s, p.cmd), LAMBDA d :
    [ret |-> p.ret, cmd |-> p.cmd, s |-> d.s, msgs |-> d.msgs, exit |-> d.exit]))

(* fgets stores a line and its trailing newline is removed; the lines      *)
(* offered keep the stack within the bounds of the model                  *)
CRead(line) ==
    /\ prog = "c" /\ status = "run" /\ pc = "read"
    /\ \E b \in {MainBody(Stk, line, cmd)} :
           b.s.fault /= "none" \/ (b.s.count <= MaxDepth /\ InRange(stack_print(b.s)))
    /\ buf' = line
    /\ pc' = "exec"
    /\ UNCHANGED <<status, nodes, first, last, count, cmd, list, retval, ndone, out>>
    /\ ProgFrame

(* the rest of the iteration of the for (;;) of main: parse_buf, the       *)
(* switch, stack_print and *buf = 0                                        *)
CExec ==
    /\ prog = "c" /\ status = "run" /\ pc = "exec"
    /\ \E b \in {MainBody(Stk, buf, cmd)} :
       LET stop == b.s.fault /= "none" \/ b.exit
       IN  /\ retval' = b.ret
           /\ cmd' = b.cmd
           /\ nodes' = b.s.nodes
           /\ first' = b.s.first
           /\ last' = b.s.last
           /\ count' = b.s.count
           /\ status' = IF b.s.fault /= "none" THEN b.s.fault
                        ELSE IF b.exit THEN "exit" ELSE "run"
           /\ out' = [msgs |-> b.msgs,
                      listing |-> IF stop THEN <<>> ELSE stack_print(b.s)]
           /\ buf' = IF stop THEN buf ELSE <<>>
           /\ pc' = IF stop THEN "exec" ELSE "read"
    /\ UNCHANGED <<list, ndone>>
    /\ ProgFrame

(* fgets returns NULL *)
CEof ==
    /\ prog = "c" /\ status = "run" /\ pc = "read"
    /\ LET s == stack_destroy(Stk)
       IN  /\ nodes' = s.nodes
           /\ status' = IF s.fault /= "none" THEN s.fault ELSE "exit"
    /\ out' = [msgs |-> <<>>, listing |-> <<>>]
    /\ UNCHANGED <<first, last, count, cmd, list, pc, buf, retval, ndone>>
    /\ ProgFrame

CMain == (\E line \in CLines : CRead(line)) \/ CExec \/ CEof

-----------------------------------------------------------------------------
(* rpncalc.cc: main, run without arguments (interactive) *)

InitCC == InitProg /\ prog = "cc" /\ cmd = ZeroCmd

(* std::getline stores a line; the lines offered keep the list within the  *)
(* bounds of the model                                                     *)
CCRead(line) ==
    /\ prog = "cc" /\ status = "run" /\ pc = "read"
    /\ \E r \in {exec_line(list, line)} :
           r.fault /= "none" \/ InRange(r.list)
    /\ buf' = line
    /\ pc' = "exec"
    /\ UNCHANGED <<status, nodes, first, last, count, cmd, list, retval, ndone, out>>
    /\ ProgFrame

(* the body of the while of main: exec_line, the switch on retval and      *)
(* stack_print; the next std::getline erases *buf before it waits          *)
CCExec ==
    /\ prog = "cc" /\ status = "run" /\ pc = "exec"
    /\ \E r \in {exec_line(list, buf)} :
       LET stop == r.fault /= "none"
       IN  /\ list' = r.list
           /\ status' = IF stop THEN r.fault ELSE "run"
           /\ retval' = IF stop THEN retval ELSE r.ret
           /\ ndone' = r.done
           /\ out' = IF stop
                     THEN [msgs |-> r.msgs, listing |-> <<>>]
                     ELSE [msgs |-> r.msgs \o (IF r.ret = -1 THEN <<"error">> ELSE <<>>),
                           listing |-> r.list]
           /\ buf' = IF stop THEN buf ELSE <<>>
           /\ pc' = IF stop THEN "exec" ELSE "read"
    /\ UNCHANGED <<nodes, first, last, count, cmd>>
    /\ ProgFrame

(* std::getline fails *)
CCEof ==
    /\ prog = "cc" /\ status = "run" /\ pc = "read"
    /\ status' = "exit"
    /\ out' = [msgs |-> <<>>, listing |-> <<>>]
    /\ UNCHANGED <<nodes, first, last, count, cmd, list, pc, buf, retval, ndone>>
    /\ ProgFrame

CCMain == (\E line \in Lines : CCRead(line)) \/ CCExec \/ CCEof

-----------------------------------------------------------------------------
(* The two programs, each fed lines from Lines *)

Init == InitC \/ InitCC

Next == CMain \/ CCMain

Spec == Init /\ [][Next]_vars

-----------------------------------------------------------------------------
(* The two switches fed commands that are already classified, from empty   *)

OpValues == {D(0), D(1), D(2)}

OpCmds ==
    {[t |-> "DOUBLE", data |-> <<"val", v>>, op_times |-> 0] : v \in OpValues}
    \cup {[t |-> "OP", data |-> <<"op", o>>, op_times |-> n] :
              o \in {"SUM", "SUB", "MUL", "DIV"}, n \in 0..MaxTimes}
    \cup {[t |-> k, data |-> <<"val", D(0)>>, op_times |-> 0] : k \in {"DROP", "CLEAR"}}

InRangeVals(l) == \A i \in 1..Len(l) : InRangeVal(l[i])

OpsFrame == UNCHANGED <<prog, pc, buf, retval, ndone, call, script, popped, balance>>

(* rpncalc.c: the switch of main on the command c *)
CDispatch(c) ==
    /\ prog = "api" /\ status = "run"
    /\ \E d \in {DispatchC(Stk, c)} :
           /\ d.s.fault /= "none"
              \/ (d.s.count <= MaxOpDepth /\ InRangeVals(stack_print(d.s)))
           /\ SetStack(d.s)
           /\ out' = [msgs |-> d.msgs,
                      listing |-> IF d.s.fault /= "none" THEN <<>> ELSE stack_print(d.s)]
    /\ cmd' = c
    /\ UNCHANGED list
    /\ OpsFrame

InitList == InitProg /\ prog = "list" /\ cmd = ZeroCmd

(* rpncalc.cc: the switch of exec_line on the command c *)
CCDispatch(c) ==
    /\ prog = "list" /\ status = "run"
    /\ \E d \in {DispatchCC(list, c)} :
           /\ d.fault /= "none" \/ (Len(d.list) <= MaxOpDepth /\ InRangeVals(d.list))
           /\ list' = d.list
           /\ status' = IF d.fault /= "none" THEN d.fault ELSE "run"
           /\ out' = [msgs |-> d.msgs,
                      listing |-> IF d.fault /= "none" THEN <<>> ELSE d.list]
    /\ cmd' = c
    /\ UNCHANGED <<nodes, first, last, count>>
    /\ OpsFrame

InitOps == InitStack \/ InitList

NextOps == \E c \in OpCmds : CDispatch(c) \/ CCDispatch(c)

SpecOps == InitOps /\ [][NextOps]_vars

(* -- the two switches side by side, fed the same commands -- *)

InitBoth == InitProg /\ prog = "both" /\ cmd = ZeroCmd

(* the command c given to the switch of main of rpncalc.c and to the       *)
(* switch of exec_line of rpncalc.cc; a DROP is given only when the list   *)
(* holds a value                                                           *)
BothDispatch(c) ==
    /\ prog = "both" /\ status = "run"
    /\ c.t = "DROP" => list /= <<>>
    /\ \E d \in {DispatchC(Stk, c)} : \E e \in {DispatchCC(list, c)} :
           /\ d.s.fault /= "none"
              \/ (d.s.count <= MaxOpDepth /\ InRangeVals(stack_print(d.s)))
           /\ e.fault /= "none" \/ (Len(e.list) <= MaxOpDepth /\ InRangeVals(e.list))
           /\ nodes' = d.s.nodes
           /\ first' = d.s.first
           /\ last' = d.s.last
           /\ count' = d.s.count
           /\ list' = e.list
           /\ status' = IF d.s.fault /= "none" THEN d.s.fault
                        ELSE IF e.fault /= "none" THEN e.fault ELSE "run"
           /\ out' = [msgs |-> d.msgs \o e.msgs,
                      listing |-> IF d.s.fault /= "none" THEN <<>> ELSE stack_print(d.s)]
    /\ cmd' = c
    /\ OpsFrame

NextBoth == \E c \in OpCmds : BothDispatch(c)

SpecBoth == InitBoth /\ [][NextBoth]_vars

-----------------------------------------------------------------------------
(* Claims about the segmented stack *)

StkNext == [nodes |-> nodes', first |-> first', last |-> last', count |-> count',
            fault |-> "none"]

(* C1: pushing v1..vn on an empty stack and popping n times returns vn..v1, *)
(* every pop reports success, and the stack is empty afterwards: count is  *)
(* 0, the traversal yields nothing and one more pop would fail.            *)
C1_LifoOrder ==
    /\ status = "run"
    /\ \A i \in 1..Len(popped) : popped[i] = script[Len(script) + 1 - i]
    /\ (call.op = "pop" => call.ret = 1)
    /\ (Len(popped) = Len(script) =>
            /\ count = 0
            /\ stack_print(Stk) = <<>>
            /\ stack_pop(Stk, TRUE).ret = 0)

C1_Witness ==
    /\ Len(script) = 2 * STACK_NODE_ELEMENTS_NUM + 1
    /\ Len(popped) = Len(script)
    /\ script[1] /= script[2]

(* C2: over any interleaving of pushes and pops, count equals pushes minus *)
(* successful pops and is never negative; a pop at count 0 returns 0 and   *)
(* changes nothing, and a pop at count > 0 succeeds.                       *)
C2_CountIsBalance ==
    [][/\ count' = balance' /\ count' >= 0 /\ status' = "run"
       /\ (call'.op = "push" => count' = count + 1)
       /\ (call'.op = "pop" /\ count = 0 =>
               call'.ret = 0 /\ StkNext = Stk)
       /\ (call'.op = "pop" /\ count > 0 =>
               call'.ret = 1 /\ count' = count - 1)]_vars

(* eleven pushes and one pop, the second segment not yet released *)
C2_Witness ==
    /\ call.op = "pop" /\ call.ret = 1
    /\ count = STACK_NODE_ELEMENTS_NUM /\ balance = count
    /\ last /= first

(* C3: count equals the number of values stored in the segments reachable *)
(* from the first one (the sum of their fill indices).                     *)
C3_CountIsStored == status = "run" => count = SumPtr(Stk, Chain(Stk))

(* C4: right after stack_clear, count is 0, the traversal yields no value, *)
(* and a following pop reports an empty stack and changes nothing.         *)
C4_ClearEmpties ==
    (status = "run" /\ call.op = "clear") =>
        /\ count = 0
        /\ stack_print(Stk) = <<>>
        /\ stack_pop(Stk, TRUE).ret = 0
        /\ stack_pop(Stk, TRUE).s = Stk

(* C5: a push of x right after a clear stores x in slot 0 of the first     *)
(* segment and allocates no segment, and the pop that follows returns x    *)
(* and leaves the stack empty.                                             *)
C5_ClearPushPop ==
    [][(call.op = "clear" /\ call'.op = "push") =>
          /\ status' = "run"
          /\ Allocated(StkNext) = Allocated(Stk)
          /\ last' = first'
          /\ nodes'[first'].val[0] = call'.arg
          /\ LET r == stack_pop(StkNext, TRUE)
             IN  /\ r.ret = 1
                 /\ r.val = call'.arg
                 /\ r.s.fault = "none"
                 /\ r.s.count = 0
                 /\ stack_print(r.s) = <<>>]_vars

-----------------------------------------------------------------------------
(* Claims about the operator executor, under SpecOps *)

(* the values on the stack, bottom first *)
Vals == IF prog = "list" \/ prog = "cc" THEN list ELSE stack_print(Stk)

ValsNext == IF prog = "list" \/ prog = "cc" THEN list' ELSE stack_print(StkNext)

C6_Result(op, x, y) ==
    CASE op = "SUM" -> DAdd(x, y)
      [] op = "SUB" -> DSub(y, x)
      [] op = "MUL" -> DMul(x, y)
      [] op = "DIV" -> DDiv(y, x)

(* one iteration on the values v *)
C6_Iterate(v, op) ==
    SubSeq(v, 1, Len(v) - 2) \o <<C6_Result(op, v[Len(v)], v[Len(v) - 1])>>

(* C6: an operator command of repeat count 1 on a stack of at least two   *)
(* values whose top is x and second is y (x /= 0 for DIV) removes those   *)
(* two and pushes x+y, y-x, x*y or y/x; the values below are unchanged and *)
(* nothing is printed.  Both programs.                                    *)
C6_OneIteration ==
    [][LET v  == Vals
           op == DataOp(cmd')
       IN  (/\ cmd'.t = "OP" /\ cmd'.op_times = 1
            /\ Len(v) >= 2
            /\ ~(op = "DIV" /\ DIsZero(v[Len(v)])))
           => /\ status' = "run"
              /\ out'.msgs = <<>>
              /\ ValsNext = C6_Iterate(v, op)]_vars

(* rpncalc.c: a subtraction has left -1 above an untouched 2 *)
C6_Witness ==
    /\ prog = "api" /\ status = "run"
    /\ cmd.t = "OP" /\ DataOp(cmd) = "SUB" /\ cmd.op_times = 1
    /\ stack_print(Stk) = <<D(2), D(-1)>>

C7_Max(a, b) == IF a > b THEN a ELSE b

C7_Min(a, b) == IF a < b THEN a ELSE b

(* the iterations a repeat count r performs on k values *)
C7_Iterations(r, k) ==
    IF r = 0 THEN C7_Max(k - 1, 0) ELSE C7_Min(r, C7_Max(k - 1, 0))

(* m iterations on the values v *)
RECURSIVE C7_Apply(_, _, _)
C7_Apply(v, op, m) ==
    IF m = 0 THEN v
    ELSE Bind(C6_Iterate(v, op), LAMBDA w : C7_Apply(w, op, m - 1))

(* one of m iterations on v divides by zero *)
RECURSIVE C7_DivZero(_, _, _)
C7_DivZero(v, op, m) ==
    /\ m > 0
    /\ \/ op = "DIV" /\ DIsZero(v[Len(v)])
       \/ Bind(C6_Iterate(v, op), LAMBDA w : C7_DivZero(w, op, m - 1))

(* C7: absent division by zero, an operator command of repeat count r on  *)
(* k values performs min(r, max(k-1, 0)) iterations when r >= 1 and       *)
(* max(k-1, 0) when r = 0, prints nothing and reports nothing; 0 or 1     *)
(* values are left as they are.  Both programs.                           *)
C7_RepeatCount ==
    [][LET v  == Vals
           op == DataOp(cmd')
           m  == C7_Iterations(cmd'.op_times, Len(v))
       IN  (cmd'.t = "OP" /\ ~C7_DivZero(v, op, m))
           => /\ status' = "run"
              /\ out'.msgs = <<>>
              /\ ValsNext = C7_Apply(v, op, m)]_vars

(* DIV iterations on v with m left: whether one finds a zero on top, and   *)
(* the values that iteration leaves                                        *)
RECURSIVE C8_Divide(_, _)
C8_Divide(v, m) ==
    IF m = 0 \/ Len(v) <= 1 THEN [zero |-> FALSE, vals |-> v]
    ELSE IF DIsZero(v[Len(v)]) THEN [zero |-> TRUE, vals |-> SubSeq(v, 1, Len(v) - 2)]
    ELSE Bind(C6_Iterate(v, "DIV"), LAMBDA w : C8_Divide(w, m - 1))

(* C8: when an iteration of a DIV command finds 0 on top of at least two   *)
(* values, the stack is left with those two values removed and nothing     *)
(* pushed, whatever repeat count remains, and the message is printed once. *)
(* Both programs.                                                          *)
C8_DivideByZero ==
    [][LET v == Vals
           e == C8_Divide(v, IF cmd'.op_times = 0 THEN Len(v) - 1 ELSE cmd'.op_times)
       IN  (cmd'.t = "OP" /\ DataOp(cmd') = "DIV" /\ e.zero)
           => /\ status' = "run"
              /\ out'.msgs = <<DivZeroMsg>>
              /\ ValsNext = e.vals]_vars

(* rpncalc.c: a DIV of repeat count 3 stopped at its first iteration *)
C8_Witness ==
    /\ prog = "api" /\ status = "run"
    /\ cmd.t = "OP" /\ DataOp(cmd) = "DIV" /\ cmd.op_times = 3
    /\ out.msgs = <<DivZeroMsg>>
    /\ stack_print(Stk) = <<D(1), D(2)>>

-----------------------------------------------------------------------------
(* Claims about the line evaluator of rpncalc.cc, under Spec *)

(* main is about to evaluate a line whose last command divides by zero *)
C9_DivZeroLine ==
    /\ prog = "cc" /\ status = "run" /\ pc = "exec"
    /\ \/ buf = <<"/">> /\ Len(list) >= 2 /\ DIsZero(list[Len(list)])
       \/ buf = <<"1", " ", "0", " ", "/">>

(* C9, as claimed: evaluating a line that divides by zero yields a result  *)
(* different from that of a line that completed without error.             *)
C9_ErrorResult == [][C9_DivZeroLine => retval' /= 1]_vars

(* C9, amended: a division by zero shows only as the printed message;      *)
(* exec_line returns 1, as for a line that completed without error, main   *)
(* prints no "error" and goes on to the next line.                         *)
C9_MessageOnly ==
    [][/\ C9_DivZeroLine =>
             /\ status' = "run" /\ pc' = "read"
             /\ retval' = 1
             /\ out'.msgs = <<DivZeroMsg>>
       /\ (prog = "cc" /\ pc = "exec" /\ buf = <<"1">>) =>
             /\ retval' = 1
             /\ out'.msgs = <<>>]_vars

(* the line "1 0 /" was evaluated to its end on an empty list *)
C9_Witness ==
    /\ prog = "cc" /\ status = "run" /\ pc = "read"
    /\ retval = 1 /\ ndone = 3
    /\ out.msgs = <<DivZeroMsg>>
    /\ list = <<>>

(* the pieces of the line b between its spaces *)
RECURSIVE C10_Split(_)
C10_Split(b) ==
    IF \A i \in 1..Len(b) : b[i] /= " " THEN <<b>>
    ELSE LET i == CHOOSE i \in 1..Len(b) : b[i] = " " /\ \A j \in 1..(i - 1) : b[j] /= " "
         IN  <<SubSeq(b, 1, i - 1)>> \o C10_Split(SubSeq(b, i + 1, Len(b)))

(* the classifier yields no command for the token *)
C10_Invalid(tok) ==
    Bind(parse_token(tok, ZeroCmd), LAMBDA r : r.ret = -1 \/ r.threw)

(* the index of the first invalid token, 0 if there is none *)
C10_FirstInvalid(toks) ==
    IF \E j \in 1..Len(toks) : C10_Invalid(toks[j])
    THEN CHOOSE j \in 1..Len(toks) :
             C10_Invalid(toks[j]) /\ \A i \in 1..(j - 1) : ~C10_Invalid(toks[i])
    ELSE 0

(* the list after the tokens toks[1..n], each evaluated as a line *)
RECURSIVE C10_ApplyAll(_, _, _)
C10_ApplyAll(l, toks, n) ==
    IF n = 0 THEN l
    ELSE Bind(C10_ApplyAll(l, toks, n - 1), LAMBDA l1 : exec_line(l1, toks[n]).list)

(* C10: for a line whose first invalid token is the j-th, exec_line        *)
(* returns -1 and main prints "error"; the list is what the commands of    *)
(* the first j-1 tokens leave, and no later token is carried out.          *)
C10_NoRollback ==
    [][LET toks == C10_Split(buf)
           j    == C10_FirstInvalid(toks)
       IN  (prog = "cc" /\ status = "run" /\ pc = "exec" /\ j > 0)
           => /\ status' = "run"
              /\ retval' = -1
              /\ ndone' = j - 1
              /\ list' = C10_ApplyAll(list, toks, j - 1)
              /\ out'.msgs /= <<>>
              /\ out'.msgs[Len(out'.msgs)] = "error"]_vars

(* the non-empty pieces of the line b *)
C11_Tokens(b) == SelectSeq(C10_Split(b), LAMBDA tok : tok /= <<>>)

(* C11: a line with repeated, leading or trailing spaces whose non-empty   *)
(* tokens are all valid is evaluated to its end (exec_line returns 1, no   *)
(* "error") and leaves the list that the same tokens separated by single   *)
(* spaces leave.                                                           *)
C11_DropsEmptyTokens ==
    [][LET toks == C11_Tokens(buf)
       IN  (/\ prog = "cc" /\ status = "run" /\ pc = "exec"
            /\ toks /= <<>>
            /\ Len(toks) < Len(C10_Split(buf))
            /\ C10_FirstInvalid(toks) = 0
            /\ exec_line(list, JoinTokens(toks)).fault = "none")
           => /\ status' = "run"
              /\ retval' = 1
              /\ list' = exec_line(list, JoinTokens(toks)).list
              /\ out'.msgs = exec_line(list, JoinTokens(toks)).msgs]_vars

(* C12: a DROP command on an empty stack changes nothing and reports       *)
(* nothing, so that what follows behaves as on a fresh stack; on a          *)
(* non-empty stack it removes exactly the top value.  Both programs.        *)
C12_DropNoOp ==
    [][cmd'.t = "DROP" =>
          /\ status' = "run"
          /\ out'.msgs = <<>>
          /\ IF Vals = <<>>
             THEN /\ ValsNext = <<>>
                  /\ (prog = "api" => StkNext = Stk)
             ELSE ValsNext = SubSeq(Vals, 1, Len(Vals) - 1)]_vars

(* C13: the line "quit" ends the session: the program returns from main   *)
(* without an "error" and reads no further line.  Both programs.           *)
C13_QuitTerminates ==
    [][(prog \in {"c", "cc"} /\ status = "run" /\ pc = "exec" /\ buf = Str_quit)
          => /\ status' = "exit"
             /\ out'.msgs = <<>>]_vars

-----------------------------------------------------------------------------
(* The two classifiers applied to one token *)

MaxTokLen == 3

TokChars == {"0", "3", ".", "+", "-", "*", "x"}

(* count-then-operator tokens whose count is INT_MAX, INT_MAX + 1, 2^32,  *)
(* 2^32 + 3, LONG_MAX and LONG_MAX + 1                                      *)
LongTokens ==
    {<<"2", "1", "4", "7", "4", "8", "3", "6", "4", "7", "+">>,
     <<"2", "1", "4", "7", "4", "8", "3", "6", "4", "8", "+">>,
     <<"4", "2", "9", "4", "9", "6", "7", "2", "9", "6", "*">>,
     <<"4", "2", "9", "4", "9", "6", "7", "2", "9", "9", "-">>,
     <<"9", "2", "2", "3", "3", "7", "2", "0", "3", "6", "8", "5", "4", "7", "7", "5", "8", "0", "7", "/">>,
     <<"9", "2", "2", "3", "3", "7", "2", "0", "3", "6", "8", "5", "4", "7", "7", "5", "8", "0", "8", "+">>}

(* every token of at most MaxTokLen characters of TokChars, the keywords   *)
(* and some longer tokens                                                  *)
Tokens ==
    UNION {[1..n -> TokChars] : n \in 0..MaxTokLen}
    \cup {Str_quit, Str_drop, Str_clear,
          <<"-", "5">>, <<"-", "5", "-">>, <<"*", "3">>, <<"/", "/">>,
          <<"1", ".", "2", ".", "3">>, <<"1", ".", "5", "+">>, <<"3", "x">>,
          <<"1", "2", "/">>, <<"b", "o", "g", "u", "s">>}
    \cup LongTokens

(* what *cmd may hold when a classifier is entered: the command of an      *)
(* earlier line (rpncalc.c) or of an earlier token of the line (rpncalc.cc) *)
StaleCmds ==
    {ZeroCmd,
     [t |-> "OP", data |-> <<"op", "MUL">>, op_times |-> 2],
     [t |-> "DROP", data |-> <<"val", D(1)>>, op_times |-> 1]}

InitClassify ==
    /\ InitProg
    /\ prog \in {"c", "cc"}
    /\ cmd \in StaleCmds

(* the token reaches the classifier *)
Token(tok) ==
    /\ status = "run" /\ pc = "read"
    /\ buf' = tok
    /\ pc' = "parse"
    /\ UNCHANGED <<status, nodes, first, last, count, cmd, list, retval, ndone, out>>
    /\ ProgFrame

(* retval = parse_buf(buf, &cmd) *)
ParseBuf ==
    /\ prog = "c" /\ status = "run" /\ pc = "parse"
    /\ \E p \in {parse_buf(buf, cmd)} :
           /\ retval' = p.ret
           /\ cmd' = p.cmd
    /\ pc' = "parsed"
    /\ UNCHANGED <<status, nodes, first, last, count, list, buf, ndone, out>>
    /\ ProgFrame

(* parse_token(&tok, &cmd); an exception of std::stod or std::stol is not   *)
(* caught anywhere and ends the program                                     *)
ParseToken ==
    /\ prog = "cc" /\ status = "run" /\ pc = "parse"
    /\ \E p \in {parse_token(buf, cmd)} :
           /\ status' = IF p.threw THEN "abort" ELSE "run"
           /\ retval' = IF p.threw THEN retval ELSE p.ret
           /\ cmd' = IF p.threw THEN cmd ELSE p.cmd
    /\ pc' = "parsed"
    /\ UNCHANGED <<nodes, first, last, count, list, buf, ndone, out>>
    /\ ProgFrame

NextClassify == (\E tok \in Tokens : Token(tok)) \/ ParseBuf \/ ParseToken

SpecClassify == InitClassify /\ [][NextClassify]_vars

-----------------------------------------------------------------------------
(* Claims about the classifiers *)

(* the classifier has just returned *)
Parsed == pc = "parse" /\ pc' = "parsed"

(* the token was rejected: the classifier returned -1 *)
InvalidToken == Parsed /\ status' = "run" /\ retval' = -1

(* the token was classified as the number strtod reads from it *)
Number ==
    /\ Parsed /\ status' = "run" /\ retval' = 0
    /\ cmd'.t = "DOUBLE"
    /\ cmd'.data = <<"val", ParseDouble(buf).val>>

(* at least one digit, only digits and '.', at most one '.' *)
C14_ValidDecimal(b) ==
    /\ \E i \in 1..Len(b) : isdigit(b[i])
    /\ \A i \in 1..Len(b) : isdigit(b[i]) \/ b[i] = "."
    /\ Cardinality({i \in 1..Len(b) : b[i] = "."}) <= 1

(* the part of the token the valid-decimal check is applied to *)
C14_Checked(b) == IF b[1] \in {"+", "-"} THEN Tail(b) ELSE b

(* C14: the valid-decimal check accepts exactly the strings with at least *)
(* one digit, only digits and '.', and at most one '.'; the tokens ".",    *)
(* "+.", "-." and "1.2.3" are rejected as invalid and produce no number.   *)
C14_ValidDecimalCheck ==
    [][Parsed =>
          /\ (buf /= <<>> /\ buf[1] \notin {"*", "/"})
                => (is_valid_double(C14_Checked(buf)) = 1
                        <=> C14_ValidDecimal(C14_Checked(buf)))
          /\ buf \in {<<".">>, <<"+", ".">>, <<"-", ".">>, <<"1", ".", "2", ".", "3">>}
                => (InvalidToken /\ ~Number)]_vars

(* the rpn_op the operator character ch stands for *)
OpKind(ch) ==
    CASE ch = "+" -> "SUM" [] ch = "-" -> "SUB" [] ch = "*" -> "MUL" [] ch = "/" -> "DIV"

(* the token was classified as the operator of kind op, repeated times *)
Operator(op, times) ==
    /\ Parsed /\ status' = "run" /\ retval' = 0
    /\ cmd'.t = "OP"
    /\ cmd'.data = <<"op", op>>
    /\ cmd'.op_times = times

(* C15: a token that starts with an operator character: "+" and "-" alone *)
(* are operators repeated once; a longer token starting with + or - is a   *)
(* signed number when the rest is a valid unsigned decimal and invalid     *)
(* otherwise; "*" and "/" alone are operators repeated once and any longer *)
(* token starting with * or / is invalid.                                  *)
C15_OperatorFirst ==
    [][(Parsed /\ buf /= <<>> /\ buf[1] \in OpChars) =>
          IF Len(buf) = 1 THEN Operator(OpKind(buf[1]), 1)
          ELSE IF buf[1] \in {"+", "-"} /\ C14_ValidDecimal(Tail(buf)) THEN Number
          ELSE InvalidToken]_vars

(* the token is a run of digits followed by one operator character *)
C16_CountForm(b) ==
    /\ Len(b) >= 2
    /\ b[Len(b)] \in OpChars
    /\ \A i \in 1..(Len(b) - 1) : isdigit(b[i])

(* the integer the digits b[1..n] spell is v *)
RECURSIVE C16_Spells(_, _, _)
C16_Spells(b, n, v) ==
    IF n = 0 THEN v = 0
    ELSE /\ v >= 0
         /\ v % 10 = DigitVal(b[n])
         /\ C16_Spells(b, n - 1, v \div 10)

(* C16: a token made of digits followed by one of + - * / is classified   *)
(* as that operator, repeated as many times as the digits spell (0 stands  *)
(* for repeat-until-underflow); a token that is a valid decimal is         *)
(* classified as a number and never as this form.                          *)
C16_CountThenOperator ==
    [][(Parsed /\ buf /= <<>> /\ isdigit(buf[1])) =>
          /\ C16_CountForm(buf) =>
                /\ Operator(OpKind(buf[Len(buf)]), cmd'.op_times)
                /\ C16_Spells(buf, Len(buf) - 1, cmd'.op_times)
          /\ C14_ValidDecimal(buf) => Number]_vars

(* the token is none of the forms the classifiers know: keyword, number,  *)
(* operator alone, count-then-operator                                     *)
C17_Other(b) ==
    /\ b /= <<>>
    /\ b \notin {Str_quit, Str_drop, Str_clear}
    /\ ~C14_ValidDecimal(C14_Checked(b))
    /\ ~(Len(b) = 1 /\ b[1] \in OpChars)
    /\ ~C16_CountForm(b)

(* C17: a line that holds one token of no known form is rejected (the     *)
(* classifier returns -1) and no command is carried out: the stack keeps   *)
(* its values whatever command the line before gave.  Both programs       *)
(* (rpncalc.c takes the whole line as one token).  The tokens ".", "+."    *)
(* and "-." are the matter of C14 and are left out here.                   *)
C17_RejectsOther ==
    [][(/\ prog \in {"c", "cc"} /\ status = "run" /\ pc = "exec"
        /\ C17_Other(buf)
        /\ buf \notin {<<".">>, <<"+", ".">>, <<"-", ".">>}
        /\ (prog = "cc" => \A i \in 1..Len(buf) : buf[i] /= " "))
          => /\ status' = "run"
             /\ retval' = -1
             /\ ValsNext = Vals
             /\ (prog = "c" => StkNext = Stk)]_vars

-----------------------------------------------------------------------------
(* Claims about the segments of the stack *)

(* a pop or a drop has just removed a value *)
Popped == call'.op \in {"pop", "drop"} /\ count' = count - 1

(* C18, as stated: no segment other than the first has a fill index of 0. *)
C18_EagerShrink ==
    status = "run" =>
        \A p \in Addr : (nodes[p].alloc /\ p /= first) => nodes[p].ptr /= 0

(* C18, amended: a pop that empties the last segment keeps it; the pop    *)
(* that finds the last segment empty releases it and takes its value from  *)
(* the segment before.  No segment other than the first and the last has a *)
(* fill index of 0.                                                        *)
C18_LazyShrink ==
    [][(status = "run" /\ Popped) =>
          /\ status' = "run"
          /\ IF nodes[last].ptr = 0
             THEN /\ last' = nodes[last].prev
                  /\ ~nodes'[last].alloc
                  /\ nodes'[last'].ptr = STACK_NODE_ELEMENTS_NUM - 1
             ELSE /\ last' = last
                  /\ nodes'[last].alloc
                  /\ nodes'[last].ptr = nodes[last].ptr - 1
          /\ \A p \in Addr :
                (nodes'[p].alloc /\ p /= first' /\ p /= last') => nodes'[p].ptr /= 0]_vars

(* a pop has left the second segment empty and still allocated *)
C18_Witness ==
    /\ status = "run"
    /\ call.op \in {"pop", "drop"} /\ call.ret = 1
    /\ last /= first
    /\ nodes[last].alloc
    /\ nodes[last].ptr = 0
    /\ count = STACK_NODE_ELEMENTS_NUM

(* C19, as stated: every segment but the last is full, and the last holds *)
(* count mod C values when count > 0 or is the single empty first segment  *)
(* when count = 0.                                                         *)
C19_CountModC ==
    status = "run" =>
        /\ \A p \in Addr :
              (nodes[p].alloc /\ p /= last) => nodes[p].ptr = STACK_NODE_ELEMENTS_NUM
        /\ IF count > 0
           THEN nodes[last].ptr = count % STACK_NODE_ELEMENTS_NUM
           ELSE /\ last = first
                /\ Chain(Stk) = <<first>>
                /\ nodes[first].ptr = 0

(* C19, amended: every segment but the last is full and the last holds    *)
(* the rest of the count values: count mod C when that is not 0; when      *)
(* count is a positive multiple of C the last segment is full, or is a     *)
(* segment other than the first that a pop has emptied; when count = 0 it  *)
(* is the single empty first segment.                                      *)
C19_Segments ==
    status = "run" =>
        /\ \A p \in Addr :
              (nodes[p].alloc /\ p /= last) => nodes[p].ptr = STACK_NODE_ELEMENTS_NUM
        /\ count = STACK_NODE_ELEMENTS_NUM * (Len(Chain(Stk)) - 1) + nodes[last].ptr
        /\ IF count = 0
           THEN /\ last = first
                /\ Chain(Stk) = <<first>>
                /\ nodes[first].ptr = 0
           ELSE IF count % STACK_NODE_ELEMENTS_NUM /= 0
           THEN nodes[last].ptr = count % STACK_NODE_ELEMENTS_NUM
           ELSE \/ nodes[last].ptr = STACK_NODE_ELEMENTS_NUM
                \/ nodes[last].ptr = 0 /\ last /= first

(* a push has just filled the second segment *)
C19_Witness ==
    /\ status = "run"
    /\ call.op = "push"
    /\ count = 2 * STACK_NODE_ELEMENTS_NUM
    /\ last /= first
    /\ nodes[last].ptr = STACK_NODE_ELEMENTS_NUM

(* C20: stack_clear on a stack of m segments frees exactly the m - 1      *)
(* segments after the first; the first stays allocated, with fill index 0  *)
(* and no successor, and s->last designates it.                            *)
C20_ClearReleases ==
    [][(status = "run" /\ call'.op = "clear") =>
          LET segs  == {Chain(Stk)[i] : i \in 1..Len(Chain(Stk))}
              freed == Allocated(Stk) \ Allocated(StkNext)
          IN  /\ status' = "run"
              /\ freed = segs \ {first}
              /\ Cardinality(freed) = Len(Chain(Stk)) - 1
              /\ first' = first
              /\ nodes'[first].alloc
              /\ nodes'[first].ptr = 0
              /\ nodes'[first].next = NULL
              /\ last' = first]_vars

-----------------------------------------------------------------------------
(* Claims about the whole stack: memory safety, and the list as its model *)

(* C21: s->last designates an allocated segment that is reached from      *)
(* s->first along the next links, and no operation has read or written a   *)
(* released segment, followed a null prev link or left the slots of a      *)
(* segment.                                                                *)
C21_MemorySafe ==
    prog \in {"api", "c"} =>
        /\ status /= "ub"
        /\ status = "run" =>
              /\ nodes[first].alloc
              /\ nodes[last].alloc
              /\ \E i \in 1..Len(Chain(Stk)) : Chain(Stk)[i] = last

(* C22: the stack of rpncalc.c and the list of rpncalc.cc, given the same *)
(* commands from empty, hold the same values in the same order (what the   *)
(* traversal from s->first yields is the list) and report the same size,   *)
(* after every command.                                                    *)
C22_Refines ==
    prog = "both" =>
        /\ status = "run"
        /\ stack_print(Stk) = list
        /\ count = Len(list)

=============================================================================
